---- MODULE Spec2Model ----
(***************************************************************************)
(* The raw-file writer of imspy (simulation/tdf.py, class TDFWriter): the  *)
(* append-only binary file analysis.tdf_bin, the cursor `position`, the    *)
(* accumulated frame rows and the tables of analysis.tdf; beside it the    *)
(* dataset reader (timstof/data.py: opening, the frame id lists, the       *)
(* iterator), the frame constructor (pyims/frame.py) and the noise job     *)
(* (simulation/timsim/jobs/add_noise_from_real_data.py).                   *)
(***************************************************************************)
EXTENDS Integers, Sequences, FiniteSets, TLC

(***************************************************************************)
(* Bounds of the model.                                                    *)
(***************************************************************************)
\* frames handed to the writer over a whole run (all sessions together)
MaxFrames == 2
\* longest list handed to one write_frames call
MaxBatch == 2
\* rows a session may hold whose write failed after the row was recorded
MaxFaults == 1
\* times a writer is constructed again over the same directory
MaxOpens == 1

\* largest frame_start_pos handed to build_frame_meta_row on its own
MaxStartPos == 8

\* most frames of a dataset that is read
MaxFrameCount == 3
\* for-loops begun over one dataset
MaxLoops == 2

\* longest array handed to the constructor of a frame
MaxArrayLen == 2

\* most candidate paths obb.get_so_paths() returns
MaxSoPaths == 3

\* longest list of frames handed to add_real_data_noise_to_frames
MaxNoiseFrames == 2
\* most rows of frames_to_window_groups
MaxWindowRows == 2
\* most frames of a slice
MaxSliceFrames == 3
\* most for-loops over one slice
MaxSliceLoops == 2
\* most entries of a fasta string handed to split_fasta
MaxFastaEntries == 3
\* largest num_splits handed to split_fasta
MaxSplits == 3

\* default of the constructor argument offset_bytes
DefaultOffsetBytes == 64
\* header sizes tried by the constructor
OffsetChoices == {2, DefaultOffsetBytes}
\* values of the scan_mode argument (8 = DDA-PASEF, 9 = DIA-PASEF)
ScanModes == {8, 9}
\* default of the num_threads argument of write_frames
DefaultNumThreads == 4
\* values of the num_threads argument
NumThreadsChoices == {1, DefaultNumThreads}

(***************************************************************************)
(* Small helpers.                                                          *)
(***************************************************************************)
RECURSIVE SeqSum(_)
SeqSum(s) == IF s = <<>> THEN 0 ELSE Head(s) + SeqSum(Tail(s))

RECURSIVE SeqMax(_)
SeqMax(s) == IF Len(s) = 1 THEN s[1]
             ELSE LET m == SeqMax(Tail(s)) IN IF Head(s) > m THEN Head(s) ELSE m

RECURSIVE Zeros(_)
Zeros(n) == IF n <= 0 THEN <<>> ELSE <<0>> \o Zeros(n - 1)

RECURSIVE Flatten(_)
Flatten(ss) == IF ss = <<>> THEN <<>> ELSE Head(ss) \o Flatten(Tail(ss))

(***************************************************************************)
(* The helper dataset (helper_handle): the template the writer copies      *)
(* from.  Its frame table has two rows, so frame ids 1 and 2 have a        *)
(* template row and frame id 3 has none.                                   *)
(***************************************************************************)
HelperMetaData ==
  << [Id |-> 1, Time |-> 1, Polarity |-> 43, ScanMode |-> 9, MsMsType |-> 0,
      TimsId |-> 64, MaxIntensity |-> 900, SummedIntensities |-> 9000,
      NumScans |-> 918, NumPeaks |-> 77, MzCalibration |-> 1, T1 |-> 25],
     [Id |-> 2, Time |-> 2, Polarity |-> 43, ScanMode |-> 9, MsMsType |-> 9,
      TimsId |-> 4096, MaxIntensity |-> 800, SummedIntensities |-> 8000,
      NumScans |-> 918, NumPeaks |-> 66, MzCalibration |-> 1, T1 |-> 26] >>

HelperNumScans == 7

HelperSegments ==
  << [Id |-> 1, FirstFrame |-> 1, LastFrame |-> 2, IsCalibrationSegment |-> 0] >>

HelperMzCalibration == << [Id |-> 1, ModelType |-> 2, C0 |-> 313] >>
HelperTimsCalibration == << [Id |-> 1, ModelType |-> 2, C0 |-> 1] >>
HelperGlobalMetadata == << [Key |-> 1, Value |-> 400], [Key |-> 2, Value |-> 1600] >>
HelperFrameMsmsInfo == << [Frame |-> 2, Parent |-> 1] >>

helper_get_table(table_name) ==
  CASE table_name = "Segments" -> HelperSegments
    [] table_name = "FrameMsmsInfo" -> HelperFrameMsmsInfo
    [] table_name = "Frames" -> HelperMetaData

(***************************************************************************)
(* Coordinate transforms and compression of the helper dataset.            *)
(***************************************************************************)
mz_to_tof(frame_id, mzs) == [i \in 1..Len(mzs) |-> (2 * mzs[i] + frame_id) % 256]

inverse_mobility_to_scan(frame_id, inv_mobs) ==
  [i \in 1..Len(inv_mobs) |-> (HelperNumScans - inv_mobs[i] + frame_id) % 256]

\* one blob: its length, total_scans, then the (scan, tof, intensity) triples
indexed_values_to_compressed_bytes(scan, tof, intensity, total_scans) ==
  <<(2 + 3 * Len(intensity)) % 256, total_scans % 256>>
    \o Flatten([i \in 1..Len(intensity) |-> <<scan[i], tof[i], intensity[i] % 256>>])

(***************************************************************************)
(* Frames handed to the writer.                                            *)
(***************************************************************************)
MkFrame(id, ms, ints) ==
  LET mzs == [i \in 1..Len(ints) |-> 100 + i]
      mobs == [i \in 1..Len(ints) |-> i]
  IN [frame_id |-> id, ms_type |-> ms, retention_time |-> 10 * id + ms,
      scan |-> inverse_mobility_to_scan(id, mobs), mobility |-> mobs,
      tof |-> mz_to_tof(id, mzs), mz |-> mzs, intensity |-> ints]

\* a two-peak precursor frame, a zero-peak fragment frame, and a one-peak frame
\* whose id has no template row
FrameSet ==
  { MkFrame(1, 0, <<20, 30>>), MkFrame(2, 1, <<>>), MkFrame(3, 1, <<50>>) }

FrameLists == UNION {[1..n -> FrameSet] : n \in 0..MaxBatch}

(***************************************************************************)
(* TDFWriter: the pure part of every method, on a writer value             *)
(*   [position, frame_meta_data, binary_file, appends, raised].            *)
(* appends lists the offset at which every append to the file began;       *)
(* raised tells that the call ended with an exception.                     *)
(***************************************************************************)
\* DataFrame.iloc[i]: 0-based, negative i counts from the end; 0 = IndexError
iloc_row(n, i) ==
  IF i >= 0 /\ i < n THEN i + 1
  ELSE IF i < 0 /\ i >= 0 - n THEN n + i + 1
  ELSE 0

build_frame_meta_row_ok(frame, use_frame_id_one) ==
  /\ iloc_row(Len(HelperMetaData), 0) # 0
  /\ use_frame_id_one \/ iloc_row(Len(HelperMetaData), frame.frame_id - 1) # 0

\* mutant: the intensity columns are only overwritten for a frame with peaks
build_frame_meta_row_keeps_template(frame, scan_mode, frame_start_pos, use_frame_id_one) ==
  LET r == IF use_frame_id_one
           THEN HelperMetaData[iloc_row(Len(HelperMetaData), 0)]
           ELSE HelperMetaData[iloc_row(Len(HelperMetaData), frame.frame_id - 1)]
  IN [r EXCEPT !.Id = frame.frame_id,
               !.Time = frame.retention_time,
               !.ScanMode = scan_mode,
               !.MsMsType = frame.ms_type,
               !.TimsId = frame_start_pos,
               !.MaxIntensity = IF Len(frame.intensity) > 0
                                THEN SeqMax(frame.intensity) ELSE @,
               !.SummedIntensities = IF Len(frame.intensity) > 0
                                     THEN SeqSum(frame.intensity) ELSE @,
               !.NumScans = HelperNumScans,
               !.NumPeaks = Len(frame.mz)]

\* mutant: the template row is always the first one
build_frame_meta_row_first_row(frame, scan_mode, frame_start_pos, use_frame_id_one) ==
  LET r == HelperMetaData[iloc_row(Len(HelperMetaData), 0)]
  IN [r EXCEPT !.Id = frame.frame_id,
               !.Time = frame.retention_time,
               !.ScanMode = scan_mode,
               !.MsMsType = frame.ms_type,
               !.TimsId = frame_start_pos,
               !.MaxIntensity = IF Len(frame.intensity) > 0
                                THEN SeqMax(frame.intensity) ELSE 0,
               !.SummedIntensities = IF Len(frame.intensity) > 0
                                     THEN SeqSum(frame.intensity) ELSE 0,
               !.NumScans = HelperNumScans,
               !.NumPeaks = Len(frame.mz)]

build_frame_meta_row(frame, scan_mode, frame_start_pos, use_frame_id_one) ==
  LET r == IF use_frame_id_one
           THEN HelperMetaData[iloc_row(Len(HelperMetaData), 0)]
           ELSE HelperMetaData[iloc_row(Len(HelperMetaData), frame.frame_id - 1)]
  IN [r EXCEPT !.Id = frame.frame_id,
               !.Time = frame.retention_time,
               !.ScanMode = scan_mode,
               !.MsMsType = frame.ms_type,
               !.TimsId = frame_start_pos,
               !.MaxIntensity = IF Len(frame.intensity) > 0
                                THEN SeqMax(frame.intensity) ELSE 0,
               !.SummedIntensities = IF Len(frame.intensity) > 0
                                     THEN SeqSum(frame.intensity) ELSE 0,
               !.NumScans = HelperNumScans,
               !.NumPeaks = Len(frame.mz)]

compress_frame(frame, use_frame_id_one) ==
  LET id == IF use_frame_id_one THEN 1 ELSE frame.frame_id
      tof == mz_to_tof(id, frame.mz)
      scan == inverse_mobility_to_scan(id, frame.mobility)
  IN indexed_values_to_compressed_bytes(scan, tof, frame.intensity, HelperNumScans)

\* mutant: with more than one thread the payloads come back last frame first
compress_frames_unordered(frames, num_threads) ==
  [i \in 1..Len(frames) |->
     compress_frame(frames[IF num_threads > 1 THEN Len(frames) + 1 - i ELSE i], FALSE)]

\* helper_handle.compress_frames(frames, num_threads)
compress_frames(frames, num_threads) ==
  [i \in 1..Len(frames) |-> compress_frame(frames[i], FALSE)]

\* mutant: the file is opened "wb", so the write replaces the content
bin_append_truncating(w, data) ==
  [w EXCEPT !.binary_file = data,
            !.appends = Append(@, Len(w.binary_file)),
            !.position = Len(data)]

\* open(binary_file, "ab"); write(data); position = tell()
bin_append(w, data) ==
  LET file == w.binary_file \o data
  IN [w EXCEPT !.binary_file = file,
               !.appends = Append(@, Len(w.binary_file)),
               !.position = Len(file)]

\* mutant: position is left at the 0 that __init__ gave it
setup_binary_file_no_tell(old, n) ==
  [position |-> 0, frame_meta_data |-> <<>>, binary_file |-> Zeros(n),
   appends |-> <<>>, raised |-> FALSE]

\* mutant: position is set to offset_bytes but no header is written
setup_binary_file_no_header(old, n) ==
  [position |-> n, frame_meta_data |-> <<>>, binary_file |-> <<>>,
   appends |-> <<>>, raised |-> FALSE]

\* mutant: the file is opened "ab", so the header follows the old content
setup_binary_file_keeps_old(old, n) ==
  LET file == old \o Zeros(n)
  IN [position |-> Len(file), frame_meta_data |-> <<>>, binary_file |-> file,
      appends |-> <<>>, raised |-> FALSE]

\* __init__ and _setup_connections on a directory whose analysis.tdf_bin holds
\* old (<<>> when there is none): frame_meta_data = []; open(binary_file, "wb")
\* truncates; write(zeros); position = tell()
setup_binary_file(old, n) ==
  LET truncated == SubSeq(old, 1, 0)
      file == truncated \o Zeros(n)
  IN [position |-> Len(file), frame_meta_data |-> <<>>, binary_file |-> file,
      appends |-> <<>>, raised |-> FALSE]

\* mutant: the row is built after the append, from the new position
write_frame_result_row_last(w, frame, scan_mode) ==
  IF ~build_frame_meta_row_ok(frame, FALSE)
  THEN [w EXCEPT !.raised = TRUE]
  ELSE LET w1 == bin_append(w, compress_frame(frame, FALSE))
       IN [w1 EXCEPT !.frame_meta_data =
             Append(@, build_frame_meta_row(frame, scan_mode, w1.position, FALSE))]

\* mutant: the payload is appended before the row is built
write_frame_result_append_first(w, frame, scan_mode) ==
  LET w1 == bin_append(w, compress_frame(frame, FALSE))
  IN IF ~build_frame_meta_row_ok(frame, FALSE)
     THEN [w1 EXCEPT !.raised = TRUE]
     ELSE [w1 EXCEPT !.frame_meta_data =
             Append(@, build_frame_meta_row(frame, scan_mode, w.position, FALSE))]

write_frame_result(w, frame, scan_mode) ==
  IF ~build_frame_meta_row_ok(frame, FALSE)
  THEN [w EXCEPT !.raised = TRUE]
  ELSE LET w1 == [w EXCEPT !.frame_meta_data =
                     Append(@, build_frame_meta_row(frame, scan_mode, w.position, FALSE))]
           compressed_data == compress_frame(frame, FALSE)
       IN bin_append(w1, compressed_data)

\* mutant: position = tell() is dedented out of the loop, so every row of a
\* batch gets the position the batch started at
RECURSIVE write_frames_loop_stale_position(_, _, _, _, _)
write_frames_loop_stale_position(w, frames, compressed_data, scan_mode, i) ==
  IF i > Len(frames) \/ i > Len(compressed_data)
  THEN [w EXCEPT !.position = Len(w.binary_file)]
  ELSE IF ~build_frame_meta_row_ok(frames[i], FALSE)
  THEN [w EXCEPT !.raised = TRUE]
  ELSE LET w1 == [w EXCEPT !.frame_meta_data =
                     Append(@, build_frame_meta_row(frames[i], scan_mode, w.position, FALSE))]
           w2 == [bin_append(w1, compressed_data[i]) EXCEPT !.position = w.position]
       IN write_frames_loop_stale_position(w2, frames, compressed_data, scan_mode, i + 1)

\* mutant: the payloads are paired with the frames in reverse
zip_item_reversed(frames, compressed_data, i) ==
  [frame |-> frames[i], data |-> compressed_data[Len(compressed_data) + 1 - i]]

\* the i-th item of zip(frames, compressed_data)
zip_item(frames, compressed_data, i) ==
  [frame |-> frames[i], data |-> compressed_data[i]]

\* mutant: the row is put in front of the rows recorded so far
write_frames_step_row_first(w, frame, data, scan_mode) ==
  IF ~build_frame_meta_row_ok(frame, FALSE)
  THEN [w EXCEPT !.raised = TRUE]
  ELSE LET w1 == [w EXCEPT !.frame_meta_data =
                     <<build_frame_meta_row(frame, scan_mode, w.position, FALSE)>> \o @]
       IN bin_append(w1, data)

\* mutant: the payload is written before the row is built
write_frames_step_append_first(w, frame, data, scan_mode) ==
  LET w1 == bin_append(w, data)
  IN IF ~build_frame_meta_row_ok(frame, FALSE)
     THEN [w1 EXCEPT !.raised = TRUE]
     ELSE [w1 EXCEPT !.frame_meta_data =
             Append(@, build_frame_meta_row(frame, scan_mode, w.position, FALSE))]

\* one pass of the loop of write_frames over (frame, data)
write_frames_step(w, frame, data, scan_mode) ==
  IF ~build_frame_meta_row_ok(frame, FALSE)
  THEN [w EXCEPT !.raised = TRUE]
  ELSE LET w1 == [w EXCEPT !.frame_meta_data =
                     Append(@, build_frame_meta_row(frame, scan_mode, w.position, FALSE))]
       IN bin_append(w1, data)

RECURSIVE write_frames_loop(_, _, _, _, _)
write_frames_loop(w, frames, compressed_data, scan_mode, i) ==
  IF i > Len(frames) \/ i > Len(compressed_data) THEN w
  ELSE LET item == zip_item(frames, compressed_data, i)
           w1 == write_frames_step(w, item.frame, item.data, scan_mode)
       IN IF w1.raised THEN w1
          ELSE write_frames_loop(w1, frames, compressed_data, scan_mode, i + 1)

write_frames_result(w, frames, scan_mode, num_threads) ==
  LET compressed_data == compress_frames(frames, num_threads)
  IN write_frames_loop(w, frames, compressed_data, scan_mode, 1)

\* write_frame when compress_frame or open() raises: the row is already in
\* frame_meta_data, the file and position are as they were
write_frame_failing(w, frame, scan_mode) ==
  [w EXCEPT !.frame_meta_data =
              Append(@, build_frame_meta_row(frame, scan_mode, w.position, FALSE)),
            !.raised = TRUE]

\* write_frame once per frame, in order, stopping at the first exception
RECURSIVE write_frame_each(_, _, _, _)
write_frame_each(w, frames, scan_mode, i) ==
  IF i > Len(frames) \/ w.raised THEN w
  ELSE write_frame_each(write_frame_result(w, frames[i], scan_mode), frames,
                        scan_mode, i + 1)

(***************************************************************************)
(* The metadata store analysis.tdf: a function from the names of the       *)
(* tables that exist to their rows.                                        *)
(***************************************************************************)
\* mutant: to_sql(..., if_exists='append'): the rows follow those of the table
\* the store already holds
create_table_appending(db, table, table_name) ==
  [n \in DOMAIN db \cup {table_name} |->
     IF n = table_name
     THEN (IF n \in DOMAIN db THEN db[n] ELSE <<>>) \o table
     ELSE db[n]]

\* to_sql(table_name, conn, if_exists='replace', index=False)
create_table(db, table, table_name) ==
  [n \in DOMAIN db \cup {table_name} |-> IF n = table_name THEN table ELSE db[n]]

setup_tables(db) ==
  LET d1 == create_table(db, HelperMzCalibration, "MzCalibration")
      d2 == create_table(d1, HelperTimsCalibration, "TimsCalibration")
      d3 == create_table(d2, HelperGlobalMetadata, "GlobalMetadata")
  IN create_table(d3, helper_get_table("FrameMsmsInfo"), "FrameMsmsInfo")

get_frame_meta_data(rows) == rows

\* mutant: the Id of the last row instead of the largest Id
IdLast(meta_data) == meta_data[Len(meta_data)].Id

IdMax(meta_data) == SeqMax([i \in 1..Len(meta_data) |-> meta_data[i].Id])

write_frame_meta_data_ok(rows) == Len(get_frame_meta_data(rows)) > 0

\* mutant: the Frames table is stored before LastFrame is computed
write_frame_meta_data_result_frames_first(db, rows) ==
  LET meta_data == get_frame_meta_data(rows)
      d1 == create_table(db, meta_data, "Frames")
      segments0 == helper_get_table("Segments")
  IN IF ~write_frame_meta_data_ok(rows) THEN d1
     ELSE create_table(d1,
                       [i \in 1..Len(segments0) |->
                          [segments0[i] EXCEPT !.LastFrame = IdMax(meta_data)]],
                       "Segments")

\* the store write_frame_meta_data leaves: meta_data.Id raises on the frame
\* without columns that pd.DataFrame([]) is, before any table is stored
write_frame_meta_data_result(db, rows) ==
  LET meta_data == get_frame_meta_data(rows)
      segments0 == helper_get_table("Segments")
  IN IF ~write_frame_meta_data_ok(rows) THEN db
     ELSE create_table(create_table(db, meta_data, "Frames"),
                       [i \in 1..Len(segments0) |->
                          [segments0[i] EXCEPT !.LastFrame = IdMax(meta_data)]],
                       "Segments")

\* DataFrame.rename(columns=...): the columns named in `columns` get their new
\* name, every other column keeps its name; the caller's table is not changed
rename(table, columns) ==
  LET new(c) == IF c \in DOMAIN columns THEN columns[c] ELSE c
  IN [i \in 1..Len(table) |->
        [k \in {new(c) : c \in DOMAIN table[i]} |->
           table[i][CHOOSE c \in DOMAIN table[i] : new(c) = k]]]

\* mutant: the table is stored under the name of a template table
write_dia_ms_ms_info_result_as_template(db, dia_ms_ms_info) ==
  LET out == rename(dia_ms_ms_info,
                    [frame |-> "Frame", window_group |-> "WindowGroup"])
  IN create_table(db, out, "FrameMsmsInfo")

write_dia_ms_ms_info_result(db, dia_ms_ms_info) ==
  LET out == rename(dia_ms_ms_info,
                    [frame |-> "Frame", window_group |-> "WindowGroup"])
  IN create_table(db, out, "DiaFrameMsMsInfo")

\* mutant: scan_start and scan_end land in each other's column
write_dia_ms_ms_windows_result_scans_swapped(db, dia_ms_ms_windows) ==
  LET out == rename(dia_ms_ms_windows,
                    [window_group |-> "WindowGroup", scan_start |-> "ScanNumEnd",
                     scan_end |-> "ScanNumBegin", isolation_mz |-> "IsolationMz",
                     isolation_width |-> "IsolationWidth",
                     collision_energy |-> "CollisionEnergy"])
  IN create_table(db, out, "DiaFrameMsMsWindows")

write_dia_ms_ms_windows_result(db, dia_ms_ms_windows) ==
  LET out == rename(dia_ms_ms_windows,
                    [window_group |-> "WindowGroup", scan_start |-> "ScanNumBegin",
                     scan_end |-> "ScanNumEnd", isolation_mz |-> "IsolationMz",
                     isolation_width |-> "IsolationWidth",
                     collision_energy |-> "CollisionEnergy"])
  IN create_table(db, out, "DiaFrameMsMsWindows")

\* tables a caller hands to write_dia_ms_ms_info and write_dia_ms_ms_windows
DiaInfoTables ==
  { << [frame |-> 2, window_group |-> 1] >>,
    << [frame |-> 2, window_group |-> 1], [frame |-> 3, window_group |-> 2] >> }

DiaWindowTables ==
  { << [window_group |-> 1, scan_start |-> 0, scan_end |-> 3, isolation_mz |-> 500,
        isolation_width |-> 25, collision_energy |-> 30] >>,
    << [window_group |-> 1, scan_start |-> 0, scan_end |-> 3, isolation_mz |-> 500,
        isolation_width |-> 25, collision_energy |-> 30],
       [window_group |-> 2, scan_start |-> 4, scan_end |-> 6, isolation_mz |-> 525,
        isolation_width |-> 25, collision_energy |-> 35] >> }

(***************************************************************************)
(* State.                                                                  *)
(***************************************************************************)
EmptyDb == [n \in {} |-> <<>>]

VARIABLES
  position,         \* TDFWriter.position
  frame_meta_data,  \* TDFWriter.frame_meta_data
  binary_file,      \* content of analysis.tdf_bin
  offset_bytes,     \* TDFWriter.offset_bytes
  conn,             \* tables of analysis.tdf
  appends,          \* offsets at which this session's appends began
  twin,             \* a second writer, given every frame by write_frame
  finalized,        \* write_frame_meta_data was called in this session
  one_batch,        \* all rows of this session come from one write_frames call
  raised,           \* the method whose call raised, "" after a call that returned
  opens,            \* writers constructed over the directory after the first
  written,          \* frames appended so far, all sessions together
  wf,               \* the write_frames call in progress, when followed step by step
  persisted         \* the last call was a write_frame_meta_data that returned

VARIABLES
  helper_meta_data, \* helper_handle.meta_data, the template table
  row_call,         \* the last build_frame_meta_row call and what it returned
  meta_data,        \* TimsDataset.meta_data
  precursor_frames, \* TimsDataset.precursor_frames
  fragment_frames,  \* TimsDataset.fragment_frames
  current_index,    \* TimsDataset.__current_index
  loop,             \* the for-loop over the dataset that ran last
  frame_read,       \* what the last get_tims_frame call returned
  so_paths,         \* obb.get_so_paths(): per candidate, whether it loads
  opening,          \* the constructor call of a dataset or handle
  frame_call,       \* the last construction of a TimsFrame
  noise_in,         \* arguments of add_real_data_noise_to_frames
  noise_out,        \* what the call returned and did
  slice_ptr,        \* TimsSlice.__slice_ptr: the frames of the native slice
  slice_index,      \* TimsSlice.__current_index
  slice_loop,       \* the for-loop over the slice that ran last
  fasta_in,         \* arguments of split_fasta
  fasta_out         \* what the call returned

writer_vars == <<position, frame_meta_data, binary_file, offset_bytes, conn, appends,
                 twin, finalized, one_batch, raised, opens, written, wf, persisted>>
row_vars == <<helper_meta_data, row_call>>
dataset_vars == <<meta_data, precursor_frames, fragment_frames, current_index, loop,
                  frame_read>>
open_vars == <<so_paths, opening>>
frame_vars == <<frame_call>>
noise_vars == <<noise_in, noise_out>>
slice_vars == <<slice_ptr, slice_index, slice_loop>>
fasta_vars == <<fasta_in, fasta_out>>

vars == <<writer_vars, row_vars, dataset_vars, open_vars, frame_vars, noise_vars,
          slice_vars, fasta_vars>>

\* what a call on the writer leaves alone
beside_writer == <<row_vars, dataset_vars, open_vars, frame_vars, noise_vars,
                   slice_vars, fasta_vars>>
\* what a call on an open dataset leaves alone
beside_dataset == <<writer_vars, row_vars, open_vars, frame_vars, noise_vars,
                    slice_vars, fasta_vars>>
\* what the construction of a frame leaves alone
beside_frame == <<writer_vars, row_vars, dataset_vars, open_vars, noise_vars,
                  slice_vars, fasta_vars>>
\* what the opening of a dataset leaves alone
beside_open == <<writer_vars, row_vars, dataset_vars, frame_vars, noise_vars,
                 slice_vars, fasta_vars>>
\* what add_real_data_noise_to_frames leaves alone
beside_noise == <<writer_vars, row_vars, dataset_vars, open_vars, frame_vars,
                  slice_vars, fasta_vars>>
\* what a call of build_frame_meta_row on its own leaves alone
beside_row == <<writer_vars, dataset_vars, open_vars, frame_vars, noise_vars,
                slice_vars, fasta_vars>>
\* what a loop over a slice leaves alone
beside_slice == <<writer_vars, row_vars, dataset_vars, open_vars, frame_vars,
                  noise_vars, fasta_vars>>
\* what split_fasta leaves alone
beside_fasta == <<writer_vars, row_vars, dataset_vars, open_vars, frame_vars,
                  noise_vars, slice_vars>>

\* no for-loop ran over the dataset yet
LoopNone == [state |-> "none", start |-> 1, yielded |-> <<>>, begun |-> 0, prev |-> <<>>]
\* no constructor call yet
OpeningNone ==
  [pc |-> "none", cls |-> "", i |-> 0, tried |-> <<>>, appropriate_found |-> FALSE,
   handle |-> 0, binary_path |-> 0]
NoiseNoArgs == [frames |-> <<>>, frames_to_window_groups |-> <<>>]
\* no for-loop ran over the slice yet
SliceLoopNone == [state |-> "none", start |-> 0, yielded |-> <<>>, begun |-> 0, prev |-> <<>>]
FastaNoArgs == [fasta |-> <<>>, num_splits |-> 1, randomize |-> FALSE]

WfIdle ==
  [pc |-> "idle", frames |-> <<>>, scan_mode |-> 0, num_threads |-> 0,
   compressed_data |-> <<>>, running |-> {}, done |-> {}, order |-> <<>>,
   i |-> 0, base |-> 0]

Writer ==
  [position |-> position, frame_meta_data |-> frame_meta_data,
   binary_file |-> binary_file, appends |-> appends, raised |-> FALSE]

SetWriter(w) ==
  /\ position' = w.position
  /\ frame_meta_data' = w.frame_meta_data
  /\ binary_file' = w.binary_file
  /\ appends' = w.appends

Outcome(w, method) == IF w.raised THEN method ELSE ""

\* TDFWriter(helper_handle, path, exp_name, offset_bytes) over a directory
\* whose metadata store holds db
construct(db, h) ==
  LET w == setup_binary_file(binary_file, h)
  IN /\ SetWriter(w)
     /\ offset_bytes' = h
     /\ conn' = setup_tables(db)
     /\ twin' = w
     /\ finalized' = FALSE
     /\ one_batch' = FALSE
     /\ raised' = ""
     /\ persisted' = FALSE

\* the state TDFWriter(helper_handle, path, exp_name, h) leaves over an empty
\* directory
WriterConstructed(h) ==
  LET w == setup_binary_file(<<>>, h)
  IN /\ position = w.position
     /\ frame_meta_data = w.frame_meta_data
     /\ binary_file = w.binary_file
     /\ appends = w.appends
     /\ offset_bytes = h
     /\ conn = setup_tables(EmptyDb)
     /\ twin = w
     /\ finalized = FALSE
     /\ one_batch = FALSE
     /\ raised = ""
     /\ opens = 0
     /\ written = 0
     /\ wf = WfIdle
     /\ persisted = FALSE

\* a writer nobody calls
WriterIdle == WriterConstructed(DefaultOffsetBytes)

\* nothing but a writer exists
RowIdle == helper_meta_data = HelperMetaData /\ row_call = <<>>
DatasetIdle ==
  /\ meta_data = <<>>
  /\ precursor_frames = <<>>
  /\ fragment_frames = <<>>
  /\ current_index = 1
  /\ loop = LoopNone
  /\ frame_read = <<>>
OpenIdle == so_paths = <<>> /\ opening = OpeningNone
FrameIdle == frame_call = <<>>
NoiseIdle == noise_in = NoiseNoArgs /\ noise_out = <<>>
SliceIdle == slice_ptr = <<>> /\ slice_index = 0 /\ slice_loop = SliceLoopNone
FastaIdle == fasta_in = FastaNoArgs /\ fasta_out = <<>>

BesideWriterIdle ==
  /\ RowIdle /\ DatasetIdle /\ OpenIdle /\ FrameIdle /\ NoiseIdle
  /\ SliceIdle /\ FastaIdle

Init ==
  \E h \in OffsetChoices : WriterConstructed(h) /\ BesideWriterIdle

Reopen ==
  /\ opens < MaxOpens
  /\ \E h \in OffsetChoices : construct(conn, h)
  /\ opens' = opens + 1
  /\ UNCHANGED <<written, wf>>
  /\ UNCHANGED beside_writer

\* the ghost bookkeeping of a call that left the writer as w
Wrote(w, batch) ==
  LET n == Len(w.frame_meta_data) - Len(frame_meta_data)
  IN /\ written' = written + n
     /\ one_batch' = IF n = 0 THEN one_batch
                     ELSE batch /\ frame_meta_data = <<>>

write_frame ==
  /\ written < MaxFrames
  /\ \E frame \in FrameSet, scan_mode \in ScanModes :
       \E w \in {write_frame_result(Writer, frame, scan_mode)} :
          /\ SetWriter(w)
          /\ twin' = [write_frame_result(twin, frame, scan_mode) EXCEPT !.raised = FALSE]
          /\ raised' = Outcome(w, "write_frame")
          /\ Wrote(w, FALSE)
  /\ UNCHANGED <<offset_bytes, conn, finalized, opens, wf>>
  /\ persisted' = FALSE
  /\ UNCHANGED beside_writer

write_frames ==
  \E frames \in FrameLists, scan_mode \in ScanModes :
    /\ persisted' = FALSE
    /\ UNCHANGED beside_writer
    /\ written + Len(frames) <= MaxFrames
    /\ \E w \in {write_frames_result(Writer, frames, scan_mode, DefaultNumThreads)} :
          /\ SetWriter(w)
          /\ twin' = [write_frame_each(twin, frames, scan_mode, 1) EXCEPT !.raised = FALSE]
          /\ raised' = Outcome(w, "write_frames")
          /\ Wrote(w, TRUE)
    /\ UNCHANGED <<offset_bytes, conn, finalized, opens, wf>>

write_frame_meta_data ==
  /\ conn' = write_frame_meta_data_result(conn, frame_meta_data)
  /\ IF write_frame_meta_data_ok(frame_meta_data)
     THEN /\ raised' = ""
          /\ persisted' = TRUE
     ELSE /\ raised' = "write_frame_meta_data"
          /\ persisted' = FALSE
  /\ finalized' = TRUE
  /\ UNCHANGED beside_writer
  /\ UNCHANGED <<position, frame_meta_data, binary_file, offset_bytes, appends,
                 twin, one_batch, opens, written, wf>>

write_dia_ms_ms_info ==
  /\ \E dia_ms_ms_info \in DiaInfoTables :
       conn' = write_dia_ms_ms_info_result(conn, dia_ms_ms_info)
  /\ raised' = ""
  /\ UNCHANGED <<position, frame_meta_data, binary_file, offset_bytes, appends,
                 twin, finalized, one_batch, opens, written, wf>>
  /\ persisted' = FALSE
  /\ UNCHANGED beside_writer

write_dia_ms_ms_windows ==
  /\ \E dia_ms_ms_windows \in DiaWindowTables :
       conn' = write_dia_ms_ms_windows_result(conn, dia_ms_ms_windows)
  /\ raised' = ""
  /\ UNCHANGED <<position, frame_meta_data, binary_file, offset_bytes, appends,
                 twin, finalized, one_batch, opens, written, wf>>
  /\ persisted' = FALSE
  /\ UNCHANGED beside_writer

Next ==
  \/ Reopen
  \/ write_frame
  \/ write_frames
  \/ write_frame_meta_data
  \/ write_dia_ms_ms_info
  \/ write_dia_ms_ms_windows

Spec == Init /\ [][Next]_vars

(***************************************************************************)
(* The writer with calls that fail in the native compression or in open(). *)
(***************************************************************************)
write_frame_fails ==
  /\ Len(frame_meta_data) - Len(appends) < MaxFaults
  /\ \E frame \in FrameSet, scan_mode \in ScanModes :
       /\ build_frame_meta_row_ok(frame, FALSE)
       /\ \E w \in {write_frame_failing(Writer, frame, scan_mode)} :
            /\ SetWriter(w)
            /\ twin' = [write_frame_failing(twin, frame, scan_mode) EXCEPT !.raised = FALSE]
            /\ raised' = Outcome(w, "write_frame")
  /\ UNCHANGED <<offset_bytes, conn, finalized, one_batch, opens, written, wf>>
  /\ persisted' = FALSE
  /\ UNCHANGED beside_writer

\* compress_frames raises before the file is opened
write_frames_fails ==
  /\ raised' = "write_frames"
  /\ UNCHANGED <<position, frame_meta_data, binary_file, offset_bytes, conn, appends,
                 twin, finalized, one_batch, opens, written, wf>>
  /\ persisted' = FALSE
  /\ UNCHANGED beside_writer

\* one session, without the DIA tables
NextFault ==
  \/ write_frame
  \/ write_frames
  \/ write_frame_meta_data
  \/ write_frame_fails
  \/ write_frames_fails

SpecFault == Init /\ [][NextFault]_vars

(***************************************************************************)
(* write_frames followed step by step: the call, the workers of the pool   *)
(* behind compress_frames, the return of compress_frames, every pass of    *)
(* the loop, the return.                                                   *)
(***************************************************************************)
wf_call ==
  /\ wf.pc = "idle"
  /\ \E frames \in FrameLists, scan_mode \in ScanModes, num_threads \in NumThreadsChoices :
       /\ written + Len(frames) <= MaxFrames
       /\ wf' = [pc |-> "compress", frames |-> frames, scan_mode |-> scan_mode,
                 num_threads |-> num_threads,
                 compressed_data |-> [k \in 1..Len(frames) |-> <<>>],
                 running |-> {}, done |-> {}, order |-> <<>>, i |-> 1,
                 base |-> Len(frame_meta_data)]
       /\ twin' = [write_frame_each(twin, frames, scan_mode, 1) EXCEPT !.raised = FALSE]
  /\ raised' = ""
  /\ UNCHANGED <<position, frame_meta_data, binary_file, offset_bytes, conn, appends,
                 finalized, one_batch, opens, written>>
  /\ persisted' = FALSE
  /\ UNCHANGED beside_writer

\* a free worker of the pool takes a frame nobody took
wf_worker_takes ==
  /\ wf.pc = "compress"
  /\ Cardinality(wf.running) < wf.num_threads
  /\ \E k \in 1..Len(wf.frames) \ (wf.running \cup wf.done) :
       wf' = [wf EXCEPT !.running = @ \cup {k}]
  /\ UNCHANGED <<position, frame_meta_data, binary_file, offset_bytes, conn, appends,
                 twin, finalized, one_batch, raised, opens, written>>
  /\ persisted' = FALSE
  /\ UNCHANGED beside_writer

\* a worker puts the payload of its frame at the frame's place in the result
wf_worker_done ==
  /\ wf.pc = "compress"
  /\ \E k \in wf.running :
       wf' = [wf EXCEPT !.running = @ \ {k}, !.done = @ \cup {k},
                        !.order = Append(@, k),
                        !.compressed_data[k] = compress_frame(wf.frames[k], FALSE)]
  /\ UNCHANGED <<position, frame_meta_data, binary_file, offset_bytes, conn, appends,
                 twin, finalized, one_batch, raised, opens, written>>
  /\ persisted' = FALSE
  /\ UNCHANGED beside_writer

\* compress_frames has returned: every payload of the batch is produced
compress_frames_returned(w) == w.done = 1..Len(w.frames)

wf_opens_file ==
  /\ wf.pc = "compress"
  /\ compress_frames_returned(wf)
  /\ wf' = [wf EXCEPT !.pc = "append"]
  /\ UNCHANGED <<position, frame_meta_data, binary_file, offset_bytes, conn, appends,
                 twin, finalized, one_batch, raised, opens, written>>
  /\ persisted' = FALSE
  /\ UNCHANGED beside_writer

wf_loop ==
  /\ wf.pc = "append"
  /\ wf.i <= Len(wf.frames) /\ wf.i <= Len(wf.compressed_data)
  /\ LET item == zip_item(wf.frames, wf.compressed_data, wf.i)
     IN \E w \in {write_frames_step(Writer, item.frame, item.data, wf.scan_mode)} :
          /\ SetWriter(w)
          /\ raised' = Outcome(w, "write_frames")
          /\ wf' = IF w.raised THEN [wf EXCEPT !.pc = "idle"]
                   ELSE [wf EXCEPT !.i = @ + 1]
          /\ written' = IF w.raised THEN written ELSE written + 1
          /\ one_batch' = IF w.raised THEN one_batch ELSE wf.base = 0
  /\ UNCHANGED <<offset_bytes, conn, twin, finalized, opens>>
  /\ persisted' = FALSE
  /\ UNCHANGED beside_writer

wf_return ==
  /\ wf.pc = "append"
  /\ wf.i > Len(wf.frames) \/ wf.i > Len(wf.compressed_data)
  /\ wf' = [wf EXCEPT !.pc = "idle"]
  /\ UNCHANGED <<position, frame_meta_data, binary_file, offset_bytes, conn, appends,
                 twin, finalized, one_batch, raised, opens, written>>
  /\ persisted' = FALSE
  /\ UNCHANGED beside_writer

NextBatch ==
  \/ wf_call
  \/ wf_worker_takes
  \/ wf_worker_done
  \/ wf_opens_file
  \/ wf_loop
  \/ wf_return

SpecBatch == Init /\ [][NextBatch]_vars

(***************************************************************************)
(* build_frame_meta_row called on its own, with every frame, scan mode and *)
(* start position and with both values of use_frame_id_one.                *)
(***************************************************************************)
\* r = self.helper_handle.meta_data.iloc[...].copy(): the assignments that
\* follow go to the copy, the table keeps its rows
meta_data_after_build(table, frame, use_frame_id_one) == table

build_frame_meta_row_call ==
  /\ \E frame \in FrameSet, scan_mode \in ScanModes,
        frame_start_pos \in 0..MaxStartPos, use_frame_id_one \in BOOLEAN :
       LET ok == build_frame_meta_row_ok(frame, use_frame_id_one)
       IN /\ row_call' =
               << [frame |-> frame, scan_mode |-> scan_mode,
                   frame_start_pos |-> frame_start_pos,
                   use_frame_id_one |-> use_frame_id_one,
                   rows |-> IF ok
                            THEN << build_frame_meta_row(frame, scan_mode,
                                      frame_start_pos, use_frame_id_one) >>
                            ELSE <<>>] >>
          /\ helper_meta_data' =
               IF ok
               THEN meta_data_after_build(helper_meta_data, frame, use_frame_id_one)
               ELSE helper_meta_data
  /\ UNCHANGED beside_row

InitRow == WriterIdle /\ BesideWriterIdle

NextRow == build_frame_meta_row_call

SpecRow == InitRow /\ [][NextRow]_vars

(***************************************************************************)
(* TimsDataset (timstof/data.py): the frame table read at open, the two    *)
(* lists of frame ids derived from it, and the cursor of the iterator.     *)
(***************************************************************************)
\* values of the column MsMsType (0 = precursor, 8 = DDA and 9 = DIA fragment)
MsMsTypes == {0, 8, 9}

\* the Frames table of a dataset: Id is the 1-based number of the row
DatasetTables ==
  { [i \in 1..Len(t) |-> [Id |-> i, MsMsType |-> t[i]]] :
      t \in UNION { [1..n -> MsMsTypes] : n \in 0..MaxFrameCount } }

\* table[mask].Id.values.astype(np.int32): the Ids of the rows at which the
\* boolean column mask is true, in table order (astype keeps an Id below 2^31
\* as it is, and a frame table has fewer rows than that)
RECURSIVE masked_ids(_, _)
masked_ids(table, mask) ==
  IF table = <<>> THEN <<>>
  ELSE (IF Head(mask) THEN <<Head(table).Id>> ELSE <<>>)
         \o masked_ids(Tail(table), Tail(mask))

precursor_frames_of(table) ==
  masked_ids(table, [i \in 1..Len(table) |-> table[i].MsMsType = 0])

\* mutant: the mask is MsMsType >= 0
fragment_frames_of_ge(table) ==
  masked_ids(table, [i \in 1..Len(table) |-> table[i].MsMsType >= 0])

fragment_frames_of(table) ==
  masked_ids(table, [i \in 1..Len(table) |-> table[i].MsMsType > 0])

\* PyTimsDataset.frame_count(): the number of frames of the dataset
frame_count(table) == Len(table)

\* PyTimsDataset.get_frame(frame_id) for an id in 1..frame_count: a frame
\* pointer, here the one-element list of the native frame (<<>> is None)
get_frame(table, frame_id) ==
  << [frame_id |-> table[frame_id].Id, ms_type |-> table[frame_id].MsMsType] >>

\* TimsFrame.from_py_tims_frame: the pointer is stored as it comes
from_py_tims_frame(frame) == [frame_ptr |-> frame]

\* mutant: the cursor is not reset when the end is reached
dataset_next_no_reset(index, table) ==
  IF index <= frame_count(table)
  THEN LET frame_ptr == get_frame(table, index)
       IN IF frame_ptr # <<>>
          THEN [current_index |-> index + 1, raised |-> "",
                frames |-> <<from_py_tims_frame(frame_ptr[1])>>]
          ELSE [current_index |-> index + 1, raised |-> "ValueError",
                frames |-> <<>>]
  ELSE [current_index |-> index, raised |-> "StopIteration", frames |-> <<>>]

\* TimsDataset.__next__ with the cursor at index: the cursor it leaves, the
\* exception it raises ("" when it returns) and the frame it returns
dataset_next(index, table) ==
  IF index <= frame_count(table)
  THEN LET frame_ptr == get_frame(table, index)
       IN IF frame_ptr # <<>>
          THEN [current_index |-> index + 1, raised |-> "",
                frames |-> <<from_py_tims_frame(frame_ptr[1])>>]
          ELSE [current_index |-> index + 1, raised |-> "ValueError",
                frames |-> <<>>]
  ELSE [current_index |-> 1, raised |-> "StopIteration", frames |-> <<>>]

\* TimsDataset.__iter__: the dataset itself, with the cursor where it is
dataset_iter(index) == index

\* the state TimsDataset(data_path) leaves over a dataset whose frame table is
\* table
DatasetOpened(table) ==
  /\ meta_data = table
  /\ precursor_frames = precursor_frames_of(table)
  /\ fragment_frames = fragment_frames_of(table)
  /\ current_index = 1
  /\ loop = LoopNone
  /\ frame_read = <<>>

\* a for-loop over the dataset begins; a loop that was running is abandoned
loop_begins ==
  /\ loop.begun < MaxLoops
  /\ current_index' = dataset_iter(current_index)
  /\ loop' = [state |-> "running", start |-> current_index', yielded |-> <<>>,
              begun |-> loop.begun + 1,
              prev |-> IF loop.state = "stopped"
                       THEN << [start |-> loop.start, yielded |-> loop.yielded] >>
                       ELSE <<>>]
  /\ UNCHANGED <<meta_data, precursor_frames, fragment_frames, frame_read>>
  /\ UNCHANGED beside_dataset

\* the running for-loop asks for the next frame
loop_next ==
  /\ loop.state = "running"
  /\ \E n \in {dataset_next(current_index, meta_data)} :
       /\ current_index' = n.current_index
       /\ loop' = [loop EXCEPT
                     !.state = CASE n.raised = "" -> "running"
                                 [] n.raised = "StopIteration" -> "stopped"
                                 [] OTHER -> "error",
                     !.yielded = @ \o [k \in 1..Len(n.frames) |->
                                         n.frames[k].frame_ptr.frame_id]]
  /\ UNCHANGED <<meta_data, precursor_frames, fragment_frames, frame_read>>
  /\ UNCHANGED beside_dataset

\* TimsDataset.get_tims_frame(frame_id) for a frame of the dataset
get_tims_frame ==
  /\ \E frame_id \in 1..frame_count(meta_data) :
       frame_read' = << from_py_tims_frame(get_frame(meta_data, frame_id)[1]) >>
  /\ UNCHANGED <<meta_data, precursor_frames, fragment_frames, current_index, loop>>
  /\ UNCHANGED beside_dataset

InitIter ==
  /\ WriterIdle /\ RowIdle /\ OpenIdle /\ FrameIdle /\ NoiseIdle
  /\ SliceIdle /\ FastaIdle
  /\ \E table \in DatasetTables : DatasetOpened(table)

NextIter ==
  \/ loop_begins
  \/ loop_next
  \/ get_tims_frame

SpecIter == InitIter /\ [][NextIter]_vars

(***************************************************************************)
(* TimsFrame (pyims/frame.py): the constructor, which checks the lengths   *)
(* of the five arrays, and from_py_tims_frame, which wraps a frame the     *)
(* native library made.                                                    *)
(***************************************************************************)
\* an array of n values
Arr(n) == [i \in 1..n |-> i]

\* pims.PyTimsFrame(...): the native frame holds what it is given
PyTimsFrame(frame_id, ms_type, retention_time, scan, mobility, tof, mz, intensity) ==
  [frame_id |-> frame_id, ms_type |-> ms_type, retention_time |-> retention_time,
   scan |-> scan, mobility |-> mobility, tof |-> tof, mz |-> mz,
   intensity |-> intensity]

\* the frames the native library hands out: five arrays of one length
NativeFrames ==
  { PyTimsFrame(1, 0, 10, Arr(n), Arr(n), Arr(n), Arr(n), Arr(n)) :
      n \in 0..MaxArrayLen }

\* mutant: the chain of the assert ends at mz
TimsFrame_init_without_intensity(frame_id, ms_type, retention_time, scan, mobility, tof, mz, intensity) ==
  IF ~(/\ Len(scan) = Len(mobility)
       /\ Len(mobility) = Len(tof)
       /\ Len(tof) = Len(mz))
  THEN [raised |-> "AssertionError", frames |-> <<>>]
  ELSE [raised |-> "",
        frames |-> << [frame_ptr |-> PyTimsFrame(frame_id, ms_type, retention_time,
                                                 scan, mobility, tof, mz, intensity)] >>]

\* TimsFrame.__init__: assert len(scan) == len(mobility) == len(tof) == len(mz)
\* == len(intensity), then the native frame is made
TimsFrame_init(frame_id, ms_type, retention_time, scan, mobility, tof, mz, intensity) ==
  IF ~(/\ Len(scan) = Len(mobility)
       /\ Len(mobility) = Len(tof)
       /\ Len(tof) = Len(mz)
       /\ Len(mz) = Len(intensity))
  THEN [raised |-> "AssertionError", frames |-> <<>>]
  ELSE [raised |-> "",
        frames |-> << [frame_ptr |-> PyTimsFrame(frame_id, ms_type, retention_time,
                                                 scan, mobility, tof, mz, intensity)] >>]

\* TimsFrame(frame_id, ms_type, retention_time, scan, mobility, tof, mz, intensity)
TimsFrame_new ==
  /\ \E ns \in [{"scan", "mobility", "tof", "mz", "intensity"} -> 0..MaxArrayLen] :
       \E res \in {TimsFrame_init(1, 0, 10, Arr(ns["scan"]), Arr(ns["mobility"]),
                                   Arr(ns["tof"]), Arr(ns["mz"]), Arr(ns["intensity"]))} :
         frame_call' = << [via |-> "__init__", lens |-> ns, raised |-> res.raised,
                           frames |-> res.frames] >>
  /\ UNCHANGED beside_frame

\* TimsFrame.from_py_tims_frame(frame) on a frame of the native library
TimsFrame_from_native ==
  /\ \E frame \in NativeFrames :
       frame_call' =
         << [via |-> "from_py_tims_frame",
             lens |-> [a \in {"scan", "mobility", "tof", "mz", "intensity"} |->
                         Len(frame[a])],
             raised |-> "", frames |-> <<from_py_tims_frame(frame)>>] >>
  /\ UNCHANGED beside_frame

InitFrame == WriterIdle /\ BesideWriterIdle

NextFrame ==
  \/ TimsFrame_new
  \/ TimsFrame_from_native

SpecFrame == InitFrame /\ [][NextFrame]_vars

(***************************************************************************)
(* Opening a dataset (TimsDataset.__init__, timstof/data.py) or a handle   *)
(* (TimsDataHandle.__init__, pyims/handle.py): the loop over the paths of  *)
(* the native binaries.  so_paths[k] tells whether the native constructor  *)
(* returns for the k-th path; opening.handle and opening.binary_path are   *)
(* the number of a path, 0 is None.                                        *)
(***************************************************************************)
OpenClasses == {"TimsDataset", "TimsDataHandle"}

SoPathLists == UNION { [1..n -> BOOLEAN] : n \in 0..MaxSoPaths }

\* mutant: no break after the path that loads
so_loop_pass_no_break(o, paths) ==
  IF paths[o.i]
  THEN [o EXCEPT !.tried = Append(@, o.i),
                 !.handle = o.i,
                 !.binary_path = IF o.cls = "TimsDataset" THEN o.i ELSE @,
                 !.appropriate_found = TRUE,
                 !.i = @ + 1]
  ELSE [o EXCEPT !.tried = Append(@, o.i), !.i = @ + 1]

\* one pass of `for so_path in ...` with so_path the o.i-th path: the native
\* constructor returns and the loop is left, or it raises and the loop goes on
so_loop_pass(o, paths) ==
  IF paths[o.i]
  THEN [o EXCEPT !.tried = Append(@, o.i),
                 !.handle = o.i,
                 !.binary_path = IF o.cls = "TimsDataset" THEN o.i ELSE @,
                 !.appropriate_found = TRUE,
                 !.pc = "assert"]
  ELSE [o EXCEPT !.tried = Append(@, o.i), !.i = @ + 1]

\* cls(data_path) is called
open_call ==
  /\ opening.pc = "none"
  /\ \E cls \in OpenClasses :
       opening' = [OpeningNone EXCEPT !.pc = "loop", !.cls = cls, !.i = 1]
  /\ UNCHANGED so_paths
  /\ UNCHANGED beside_open

open_loop_pass ==
  /\ opening.pc = "loop"
  /\ opening.i <= Len(so_paths)
  /\ opening' = so_loop_pass(opening, so_paths)
  /\ UNCHANGED so_paths
  /\ UNCHANGED beside_open

\* the list of paths is used up
open_loop_ends ==
  /\ opening.pc = "loop"
  /\ opening.i > Len(so_paths)
  /\ opening' = [opening EXCEPT !.pc = "assert"]
  /\ UNCHANGED so_paths
  /\ UNCHANGED beside_open

\* assert appropriate_found is True: the constructor returns the object or
\* raises AssertionError
open_assert ==
  /\ opening.pc = "assert"
  /\ opening' = [opening EXCEPT !.pc = IF opening.appropriate_found
                                       THEN "returned" ELSE "AssertionError"]
  /\ UNCHANGED so_paths
  /\ UNCHANGED beside_open

InitOpen ==
  /\ WriterIdle /\ RowIdle /\ DatasetIdle /\ FrameIdle /\ NoiseIdle
  /\ SliceIdle /\ FastaIdle
  /\ so_paths \in SoPathLists
  /\ opening = OpeningNone

NextOpen ==
  \/ open_call
  \/ open_loop_pass
  \/ open_loop_ends
  \/ open_assert

SpecOpen == InitOpen /\ [][NextOpen]_vars

(***************************************************************************)
(* add_real_data_noise_to_frames (simulation/timsim/jobs).  A frame is     *)
(* its frame_id, ms_type, retention_time and its peaks, a function from    *)
(* the coordinate of a peak to its intensity.                              *)
(***************************************************************************)
\* frames of a simulation: frame 1 is a precursor frame, frames 2 and 3 are
\* fragment frames
SimFrames ==
  { [frame_id |-> 1, ms_type |-> 0, retention_time |-> 10, peaks |-> (101 :> 20)],
    [frame_id |-> 2, ms_type |-> 9, retention_time |-> 20,
     peaks |-> (101 :> 5) @@ (102 :> 7)],
    [frame_id |-> 3, ms_type |-> 9, retention_time |-> 30, peaks |-> <<>>] }

SimFrameLists == UNION { [1..n -> SimFrames] : n \in 0..MaxNoiseFrames }

\* rows of acquisition_builder.frames_to_window_groups; frame 3 has none, and
\* frame 2 is listed with two groups
WindowRows ==
  { [frame |-> 1, window_group |-> 1], [frame |-> 2, window_group |-> 1],
    [frame |-> 2, window_group |-> 2] }

WindowTables == UNION { [1..n -> WindowRows] : n \in 0..MaxWindowRows }

\* what sample_precursor_signal and sample_fragment_signal may return: a frame
\* of the reference data with one of two signals
NoiseSignals == { (101 :> 1), (103 :> 2) }

sample_precursor_signal(signal) ==
  [frame_id |-> 0, ms_type |-> 0, retention_time |-> 0, peaks |-> signal]

sample_fragment_signal(window_group, signal) ==
  [frame_id |-> 0, ms_type |-> 9, retention_time |-> 0, peaks |-> signal]

\* frame + noise: the peaks of both, the intensities of a shared coordinate
\* added; frame_id, ms_type and retention_time are those of the left operand
frame_add(frame, noise) ==
  LET at(f, x) == IF x \in DOMAIN f.peaks THEN f.peaks[x] ELSE 0
  IN [frame_id |-> frame.frame_id, ms_type |-> frame.ms_type,
      retention_time |-> frame.retention_time,
      peaks |-> [x \in DOMAIN frame.peaks \cup DOMAIN noise.peaks |->
                   at(frame, x) + at(noise, x)]]

\* dict(zip(d['frame'], d['window_group'])): a later row replaces the entry of
\* an earlier row with the same frame
window_group_dict_of(d) ==
  [f \in {d[k].frame : k \in 1..Len(d)} |->
     LET last == CHOOSE k \in 1..Len(d) :
                   /\ d[k].frame = f
                   /\ \A j \in (k + 1)..Len(d) : d[j].frame # f
     IN d[last].window_group]

\* mutant: the frames with ms_type > 0 take the fragment path
in_fragment_frames_by_ms_type(frame, keys) ==
  frame.ms_type > 0 /\ frame.frame_id \in keys

\* frame.frame_id in fragment_frames, the set of the keys of window_group_dict
in_fragment_frames(frame, keys) == frame.frame_id \in keys

\* mutant: the sum is put in front of r_list
noise_pass_prepends(acc, frame, window_group_dict, signal) ==
  IF in_fragment_frames(frame, DOMAIN window_group_dict)
  THEN LET window_group == window_group_dict[frame.frame_id]
           noise == sample_fragment_signal(window_group, signal)
       IN [r_list |-> <<frame_add(frame, noise)>> \o acc.r_list,
           calls |-> Append(acc.calls, [sampler |-> "sample_fragment_signal",
                                        window_group |-> window_group,
                                        noise |-> noise])]
  ELSE LET noise == sample_precursor_signal(signal)
       IN [r_list |-> <<frame_add(frame, noise)>> \o acc.r_list,
           calls |-> Append(acc.calls, [sampler |-> "sample_precursor_signal",
                                        window_group |-> 0,
                                        noise |-> noise])]

\* one pass of `for frame in frames`, the sampler returning signal; calls
\* lists the calls of the samplers and what they returned
noise_pass(acc, frame, window_group_dict, signal) ==
  IF in_fragment_frames(frame, DOMAIN window_group_dict)
  THEN LET window_group == window_group_dict[frame.frame_id]
           noise == sample_fragment_signal(window_group, signal)
       IN [r_list |-> Append(acc.r_list, frame_add(frame, noise)),
           calls |-> Append(acc.calls, [sampler |-> "sample_fragment_signal",
                                        window_group |-> window_group,
                                        noise |-> noise])]
  ELSE LET noise == sample_precursor_signal(signal)
       IN [r_list |-> Append(acc.r_list, frame_add(frame, noise)),
           calls |-> Append(acc.calls, [sampler |-> "sample_precursor_signal",
                                        window_group |-> 0,
                                        noise |-> noise])]

RECURSIVE noise_loop(_, _, _, _, _)
noise_loop(acc, frames, window_group_dict, signals, i) ==
  IF i > Len(frames) THEN acc
  ELSE noise_loop(noise_pass(acc, frames[i], window_group_dict, signals[i]),
                  frames, window_group_dict, signals, i + 1)

\* the call with the samplers returning signals[1], signals[2], ...: the list
\* returned, the calls of the samplers, and the caller's list after the call
add_real_data_noise_to_frames_result(frames, d, signals) ==
  LET window_group_dict == window_group_dict_of(d)
      acc == noise_loop([r_list |-> <<>>, calls |-> <<>>], frames,
                        window_group_dict, signals, 1)
  IN [r_list |-> acc.r_list, calls |-> acc.calls, frames |-> frames]

add_real_data_noise_to_frames ==
  /\ \E signals \in [1..Len(noise_in.frames) -> NoiseSignals] :
       \E res \in {add_real_data_noise_to_frames_result(
                      noise_in.frames, noise_in.frames_to_window_groups, signals)} :
         /\ noise_out' = << [given |-> noise_in.frames, r_list |-> res.r_list,
                             calls |-> res.calls] >>
         /\ noise_in' = [noise_in EXCEPT !.frames = res.frames]
  /\ UNCHANGED beside_noise

InitNoise ==
  /\ WriterIdle /\ RowIdle /\ DatasetIdle /\ OpenIdle /\ FrameIdle
  /\ SliceIdle /\ FastaIdle
  /\ \E frames \in SimFrameLists, d \in WindowTables :
       noise_in = [frames |-> frames, frames_to_window_groups |-> d]
  /\ noise_out = <<>>

NextNoise == add_real_data_noise_to_frames

SpecNoise == InitNoise /\ [][NextNoise]_vars

(***************************************************************************)
(* TimsSlice: the for-loop over the frames of a slice.                     *)
(***************************************************************************)
SliceFirstIds == {1, 4}
SliceMsTypes == {0, 8}

\* the frames of a native slice: consecutive frame ids from its first on
NativeSlices ==
  { [i \in 1..Len(t) |-> [frame_id |-> first + i - 1, ms_type |-> t[i]]] :
      first \in SliceFirstIds,
      t \in UNION { [1..n -> SliceMsTypes] : n \in 0..MaxSliceFrames } }

\* PyTimsSlice.frame_count
slice_frame_count(ptr) == Len(ptr)

\* PyTimsSlice.get_frame_at_index(index) for an index in 0..frame_count-1: a
\* frame pointer, here the one-element list of the native frame (<<>> is None)
get_frame_at_index(ptr, index) == << ptr[index + 1] >>

\* mutant: the index is not reset when the end is reached
slice_next_no_reset(index, ptr) ==
  IF index < slice_frame_count(ptr)
  THEN LET frame_ptr == get_frame_at_index(ptr, index)
       IN IF frame_ptr # <<>>
          THEN [current_index |-> index + 1, raised |-> "",
                frames |-> <<from_py_tims_frame(frame_ptr[1])>>]
          ELSE [current_index |-> index + 1, raised |-> "ValueError",
                frames |-> <<>>]
  ELSE [current_index |-> index, raised |-> "StopIteration", frames |-> <<>>]

\* TimsSlice.__next__ with the index at index: the index it leaves, the
\* exception it raises ("" when it returns) and the frame it returns
slice_next(index, ptr) ==
  IF index < slice_frame_count(ptr)
  THEN LET frame_ptr == get_frame_at_index(ptr, index)
       IN IF frame_ptr # <<>>
          THEN [current_index |-> index + 1, raised |-> "",
                frames |-> <<from_py_tims_frame(frame_ptr[1])>>]
          ELSE [current_index |-> index + 1, raised |-> "ValueError",
                frames |-> <<>>]
  ELSE [current_index |-> 0, raised |-> "StopIteration", frames |-> <<>>]

\* TimsSlice.__iter__: the slice itself, with the index where it is
slice_iter(index) == index

\* the state TimsSlice.from_py_tims_slice(slice) leaves
from_py_tims_slice(ptr) ==
  /\ slice_ptr = ptr
  /\ slice_index = 0
  /\ slice_loop = SliceLoopNone

\* a for-loop over the slice begins; a loop that was running is abandoned
slice_loop_begins ==
  /\ slice_loop.begun < MaxSliceLoops
  /\ slice_index' = slice_iter(slice_index)
  /\ slice_loop' = [state |-> "running", start |-> slice_index', yielded |-> <<>>,
                    begun |-> slice_loop.begun + 1,
                    prev |-> IF slice_loop.state = "stopped"
                             THEN << [start |-> slice_loop.start,
                                      yielded |-> slice_loop.yielded] >>
                             ELSE <<>>]
  /\ UNCHANGED slice_ptr
  /\ UNCHANGED beside_slice

\* the running for-loop asks for the next frame
slice_loop_next ==
  /\ slice_loop.state = "running"
  /\ \E n \in {slice_next(slice_index, slice_ptr)} :
       /\ slice_index' = n.current_index
       /\ slice_loop' = [slice_loop EXCEPT
                           !.state = CASE n.raised = "" -> "running"
                                       [] n.raised = "StopIteration" -> "stopped"
                                       [] OTHER -> "error",
                           !.yielded = @ \o [k \in 1..Len(n.frames) |->
                                               n.frames[k].frame_ptr]]
  /\ UNCHANGED slice_ptr
  /\ UNCHANGED beside_slice

InitSlice ==
  /\ WriterIdle /\ RowIdle /\ DatasetIdle /\ OpenIdle /\ FrameIdle /\ NoiseIdle
  /\ FastaIdle
  /\ \E ptr \in NativeSlices : from_py_tims_slice(ptr)

NextSlice ==
  \/ slice_loop_begins
  \/ slice_loop_next

SpecSlice == InitSlice /\ [][NextSlice]_vars

(***************************************************************************)
(* split_fasta: a fasta string cut into batches of entries.                *)
(* A string is the sequence of its characters.                             *)
(***************************************************************************)
NL == "\n"
GT == ">"
FastaResidues == {"K", "L"}

\* entry number i of a fasta string: header line ">i", one line of residues
FastaEntry(i, residue) == <<GT, ToString(i), NL, residue>>

RECURSIVE str_join(_, _)
\* sep.join(list)
str_join(sep, list) ==
  IF list = <<>> THEN <<>>
  ELSE IF Len(list) = 1 THEN list[1]
  ELSE list[1] \o sep \o str_join(sep, Tail(list))

\* the fasta strings of 1..MaxFastaEntries entries, the entries on lines of
\* their own, with or without a newline at the end
FastaStrings ==
  { str_join(<<NL>>, [i \in 1..Len(r) |-> FastaEntry(i, r[i])]) \o tail :
      r \in UNION { [1..n -> FastaResidues] : n \in 1..MaxFastaEntries },
      tail \in {<<>>, <<NL>>} }

\* s.startswith('>')
startswith_gt(s) == Len(s) >= 1 /\ s[1] = GT

RECURSIVE re_split(_)
\* re.split(r'\n>', s): the pieces of s between the matches, from the left
re_split(s) ==
  LET hits == {i \in 1..(Len(s) - 1) : s[i] = NL /\ s[i + 1] = GT}
  IN IF hits = {} THEN <<s>>
     ELSE LET i == CHOOSE h \in hits : \A g \in hits : h <= g
          IN <<SubSeq(s, 1, i - 1)>> \o re_split(SubSeq(s, i + 2, Len(s)))

\* the orders np.random.shuffle can leave a list of n items in
Shuffles(n) == {q \in [1..n -> 1..n] : \A i, j \in 1..n : q[i] = q[j] => i = j}

\* list[start:stop] of Python, for 0 <= start and 0 <= stop
py_slice(list, start, stop) ==
  SubSeq(list, start + 1, IF stop < Len(list) THEN stop ELSE Len(list))

RECURSIVE fasta_batches_no_extra(_, _, _, _, _, _)
\* mutant: no batch gets one of the remaining items
fasta_batches_no_extra(split_strings, num_splits, items_per_batch, remainder, i, start_index) ==
  IF i >= num_splits THEN <<>>
  ELSE LET extra == 0
           stop_index == start_index + items_per_batch + extra
       IN IF start_index >= Len(split_strings) THEN <<>>
          ELSE LET batch0 == str_join(<<NL, GT>>,
                                      py_slice(split_strings, start_index, stop_index))
                   batch == IF ~startswith_gt(batch0) THEN <<GT>> \o batch0 ELSE batch0
               IN <<batch>> \o fasta_batches_no_extra(split_strings, num_splits,
                                                     items_per_batch, remainder,
                                                     i + 1, stop_index)

RECURSIVE fasta_batches_extra_last(_, _, _, _, _, _)
\* mutant: the remaining items go to the last batches
fasta_batches_extra_last(split_strings, num_splits, items_per_batch, remainder, i, start_index) ==
  IF i >= num_splits THEN <<>>
  ELSE LET extra == IF i >= num_splits - remainder THEN 1 ELSE 0
           stop_index == start_index + items_per_batch + extra
       IN IF start_index >= Len(split_strings) THEN <<>>
          ELSE LET batch0 == str_join(<<NL, GT>>,
                                      py_slice(split_strings, start_index, stop_index))
                   batch == IF ~startswith_gt(batch0) THEN <<GT>> \o batch0 ELSE batch0
               IN <<batch>> \o fasta_batches_extra_last(split_strings, num_splits,
                                                       items_per_batch, remainder,
                                                       i + 1, stop_index)

RECURSIVE fasta_batches(_, _, _, _, _, _)
\* the loop `for i in range(num_splits)` from pass i on, start_index as the
\* pass before left it: the batches it appends to fastas
fasta_batches(split_strings, num_splits, items_per_batch, remainder, i, start_index) ==
  IF i >= num_splits THEN <<>>
  ELSE LET extra == IF i < remainder THEN 1 ELSE 0
           stop_index == start_index + items_per_batch + extra
       IN IF start_index >= Len(split_strings) THEN <<>>
          ELSE LET batch0 == str_join(<<NL, GT>>,
                                      py_slice(split_strings, start_index, stop_index))
                   batch == IF ~startswith_gt(batch0) THEN <<GT>> \o batch0 ELSE batch0
               IN <<batch>> \o fasta_batches(split_strings, num_splits,
                                            items_per_batch, remainder,
                                            i + 1, stop_index)

\* split_fasta(fasta, num_splits, randomize), shuffle being the order
\* np.random.shuffle leaves the pieces in
split_fasta(fasta, num_splits, randomize, shuffle) ==
  IF num_splits = 1 THEN <<fasta>>
  ELSE LET split0 == re_split(fasta)
           split1 == IF randomize
                     THEN [i \in 1..Len(split0) |-> split0[shuffle[i]]]
                     ELSE split0
           split_strings == IF ~startswith_gt(split1[1])
                            THEN [split1 EXCEPT ![1] = <<GT>> \o @]
                            ELSE split1
           total_items == Len(split_strings)
           items_per_batch == total_items \div num_splits
           remainder == total_items % num_splits
       IN fasta_batches(split_strings, num_splits, items_per_batch, remainder, 0, 0)

split_fasta_call ==
  /\ fasta_out = <<>>
  /\ \E shuffle \in Shuffles(Len(re_split(fasta_in.fasta))) :
       fasta_out' = << split_fasta(fasta_in.fasta, fasta_in.num_splits,
                                   fasta_in.randomize, shuffle) >>
  /\ UNCHANGED fasta_in
  /\ UNCHANGED beside_fasta

InitFasta ==
  /\ WriterIdle /\ RowIdle /\ DatasetIdle /\ OpenIdle /\ FrameIdle /\ NoiseIdle
  /\ SliceIdle
  /\ \E fasta \in FastaStrings, num_splits \in 1..MaxSplits, randomize \in BOOLEAN :
       fasta_in = [fasta |-> fasta, num_splits |-> num_splits, randomize |-> randomize]
  /\ fasta_out = <<>>

NextFasta == split_fasta_call

SpecFasta == InitFasta /\ [][NextFasta]_vars

(***************************************************************************)
(* Properties of the writer.                                               *)
(***************************************************************************)
IsPrefix(s, t) == Len(s) <= Len(t) /\ \A i \in 1..Len(s) : s[i] = t[i]

\* the frame of FrameSet a row was built for (frame ids are unique in FrameSet)
FrameOfRow(r) == CHOOSE f \in FrameSet : f.frame_id = r.Id

\* the bytes the i-th append of the session put into the file
PayloadAt(i) ==
  SubSeq(binary_file, appends[i] + 1,
         IF i < Len(appends) THEN appends[i + 1] ELSE Len(binary_file))

\* C1: a writer given its frames by write_frames ends with the same file
\* content, the same position and the same rows (so the same TimsId per frame)
\* as a writer constructed alike and given the same frames one by one by
\* write_frame.
C1_WriteFramesAsWriteFrameEach ==
  /\ binary_file = twin.binary_file
  /\ position = twin.position
  /\ frame_meta_data = twin.frame_meta_data

\* a fresh writer that made one write_frames call with two different frames
C1_Witness ==
  /\ one_batch
  /\ Len(frame_meta_data) = 2
  /\ frame_meta_data[1].Id # frame_meta_data[2].Id
  /\ opens = 0

\* C2: every row's TimsId is the length the file had just before that frame's
\* payload was appended, and TimsId strictly increases in write order.
C2_TimsIdIsPayloadStart ==
  /\ Len(frame_meta_data) = Len(appends)
  /\ \A i \in 1..Len(frame_meta_data) : frame_meta_data[i].TimsId = appends[i]
  /\ \A i, j \in 1..Len(frame_meta_data) :
       i < j => frame_meta_data[i].TimsId < frame_meta_data[j].TimsId

\* two frames written by separate calls
C2_Witness ==
  /\ Len(frame_meta_data) >= 2
  /\ ~one_batch

\* C3: position is the length of the file in every state, it is offset_bytes
\* as long as the session has appended nothing, and no call on a writer makes
\* it smaller.
C3_PositionIsFileLength ==
  /\ [](position = Len(binary_file))
  /\ [](appends = <<>> => position = offset_bytes)
  /\ [][opens' = opens => position' >= position]_vars

\* a session that wrote frames, was finalized and got a DIA table
C3_Witness ==
  /\ position > offset_bytes
  /\ finalized
  /\ "DiaFrameMsMsInfo" \in DOMAIN conn
  /\ "DiaFrameMsMsWindows" \in DOMAIN conn

C6_LastFrameIsMaxId ==
  /\ "Frames" \in DOMAIN conn <=> "Segments" \in DOMAIN conn
  /\ "Frames" \in DOMAIN conn =>
       /\ Len(conn["Frames"]) > 0
       /\ Len(conn["Segments"]) = 1
       /\ \A s \in 1..Len(conn["Segments"]) :
            /\ \E i \in 1..Len(conn["Frames"]) :
                 conn["Frames"][i].Id = conn["Segments"][s].LastFrame
            /\ \A i \in 1..Len(conn["Frames"]) :
                 conn["Frames"][i].Id <= conn["Segments"][s].LastFrame

\* a persisted Frames table whose largest Id was not written last
C6_Witness ==
  /\ finalized
  /\ "Frames" \in DOMAIN conn
  /\ Len(conn["Frames"]) >= 2
  /\ conn["Frames"][1].Id > conn["Frames"][Len(conn["Frames"])].Id

\* C4 as stated: a write_frame call that fails leaves no row of its frame in
\* frame_meta_data.
C4_FailedWriteLeavesNoRow ==
  [][raised' = "write_frame" => frame_meta_data' = frame_meta_data]_vars

\* C7: in write_frames no append of the batch happens while payloads are still
\* being produced, every payload of the batch is produced when the loop runs,
\* and the n-th row and the n-th payload the batch added are those of the n-th
\* input frame, whatever num_threads is and in whatever order the workers end.
C7_BatchKeepsInputOrder ==
  /\ wf.pc = "compress" =>
       Len(frame_meta_data) = wf.base /\ Len(appends) = wf.base
  /\ wf.pc = "append" => \A k \in 1..Len(wf.frames) : k \in wf.done
  /\ Len(frame_meta_data) = Len(appends)
  /\ Len(frame_meta_data) - wf.base <= Len(wf.frames)
  /\ \A n \in 1..(Len(frame_meta_data) - wf.base) :
       /\ frame_meta_data[wf.base + n].Id = wf.frames[n].frame_id
       /\ frame_meta_data[wf.base + n].Time = wf.frames[n].retention_time
       /\ PayloadAt(wf.base + n) = compress_frame(wf.frames[n], FALSE)
  /\ (wf.pc = "idle" /\ raised = "") =>
       /\ Len(frame_meta_data) - wf.base = Len(wf.frames)
       /\ binary_file = twin.binary_file
       /\ frame_meta_data = twin.frame_meta_data

\* a batch of two different frames whose second payload was produced first
C7_Witness ==
  /\ wf.pc = "idle"
  /\ wf.order = <<2, 1>>
  /\ Len(frame_meta_data) - wf.base = 2
  /\ wf.frames[1] # wf.frames[2]

\* C8: the file starts with offset_bytes zero bytes; before the first append it
\* holds nothing else and position is offset_bytes; the first frame written
\* gets TimsId = offset_bytes and makes the file offset_bytes plus the length
\* of its payload long.
C8_HeaderThenFirstFrame ==
  /\ Len(binary_file) >= offset_bytes
  /\ \A i \in 1..offset_bytes : binary_file[i] = 0
  /\ appends = <<>> => Len(binary_file) = offset_bytes /\ position = offset_bytes
  /\ Len(frame_meta_data) >= 1 => frame_meta_data[1].TimsId = offset_bytes
  /\ Len(frame_meta_data) = 1 /\ Len(appends) = 1 =>
       LET data == compress_frame(FrameOfRow(frame_meta_data[1]), FALSE)
       IN /\ Len(binary_file) = offset_bytes + Len(data)
          /\ PayloadAt(1) = data

\* the first frame written after a construction with the default header
C8_Witness ==
  /\ offset_bytes = DefaultOffsetBytes
  /\ Len(frame_meta_data) = 1
  /\ Len(appends) = 1

\* C9: constructing a writer over the directory again leaves a file of exactly
\* offset_bytes zero bytes, position = offset_bytes and no rows, whatever the
\* file held.
C9_ConstructDiscardsOldFile ==
  [][opens' # opens =>
       /\ Len(binary_file') = offset_bytes'
       /\ \A i \in 1..Len(binary_file') : binary_file'[i] = 0
       /\ position' = offset_bytes'
       /\ frame_meta_data' = <<>>]_vars

\* a fresh writer over a directory in which an earlier session wrote frames
C9_Witness ==
  /\ opens > 0
  /\ written > 0
  /\ frame_meta_data = <<>>
  /\ appends = <<>>

\* C10: the row of a zero-peak frame has MaxIntensity, SummedIntensities and
\* NumPeaks 0, its TimsId is the position the write started at, and the
\* frame's payload is appended there.
C10_ZeroPeakRow ==
  \A i \in 1..Len(frame_meta_data) :
    LET f == FrameOfRow(frame_meta_data[i])
    IN Len(f.intensity) = 0 =>
         /\ frame_meta_data[i].MaxIntensity = 0
         /\ frame_meta_data[i].SummedIntensities = 0
         /\ frame_meta_data[i].NumPeaks = 0
         /\ i <= Len(appends)
         /\ frame_meta_data[i].TimsId = appends[i]
         /\ PayloadAt(i) = compress_frame(f, FALSE)

\* a zero-peak frame written after another frame
C10_Witness ==
  \E i \in 2..Len(frame_meta_data) :
    /\ Len(FrameOfRow(frame_meta_data[i]).intensity) = 0
    /\ frame_meta_data[i].TimsId > offset_bytes

\* the columns build_frame_meta_row assigns
AssignedColumns ==
  {"Id", "Time", "ScanMode", "MsMsType", "TimsId", "MaxIntensity",
   "SummedIntensities", "NumScans", "NumPeaks"}

\* C11: the row build_frame_meta_row returns has the columns of the template
\* row of index frame_id - 1 (of the first template row when use_frame_id_one
\* is set); Id, Time, ScanMode, MsMsType, TimsId, MaxIntensity (the maximum),
\* SummedIntensities (the sum), NumScans and NumPeaks hold the values of the
\* frame and the call, every other column holds the template row's value, and
\* the template table is as it was.
C11_RowIsTemplateCopy ==
  /\ helper_meta_data = HelperMetaData
  /\ \A k \in 1..Len(row_call) :
       LET c == row_call[k]
           idx == IF c.use_frame_id_one THEN 1 ELSE c.frame.frame_id
       IN /\ idx \in 1..Len(HelperMetaData) => Len(c.rows) = 1
          /\ \A j \in 1..Len(c.rows) :
               LET r == c.rows[j]
                   t == HelperMetaData[idx]
               IN /\ DOMAIN r = DOMAIN t
                  /\ r.Id = c.frame.frame_id
                  /\ r.Time = c.frame.retention_time
                  /\ r.ScanMode = c.scan_mode
                  /\ r.MsMsType = c.frame.ms_type
                  /\ r.TimsId = c.frame_start_pos
                  /\ r.MaxIntensity = IF c.frame.intensity = <<>> THEN 0
                                      ELSE SeqMax(c.frame.intensity)
                  /\ r.SummedIntensities = SeqSum(c.frame.intensity)
                  /\ r.NumScans = HelperNumScans
                  /\ r.NumPeaks = Len(c.frame.mz)
                  /\ \A col \in DOMAIN t \ AssignedColumns : r[col] = t[col]

\* a row built with use_frame_id_one for a frame whose id has no template row
C11_Witness ==
  \E k \in 1..Len(row_call) :
    /\ row_call[k].use_frame_id_one
    /\ row_call[k].frame.frame_id > Len(HelperMetaData)
    /\ Len(row_call[k].rows) = 1
    /\ row_call[k].rows[1].T1 = HelperMetaData[1].T1

\* C12: no call on a writer changes a row it recorded or a byte it wrote: the
\* rows (with their TimsId) and the file before a call of write_frame,
\* write_frames, write_frame_meta_data, write_dia_ms_ms_info or
\* write_dia_ms_ms_windows are a prefix of the rows and the file after it.
C12_WrittenFramesStay ==
  [][opens' = opens =>
       /\ IsPrefix(frame_meta_data, frame_meta_data')
       /\ IsPrefix(binary_file, binary_file')
       /\ IsPrefix(appends, appends')]_vars

\* a session that wrote a frame, persisted its rows, got both DIA tables and
\* wrote another frame
C12_Witness ==
  /\ Len(frame_meta_data) >= 2
  /\ "Frames" \in DOMAIN conn
  /\ Len(conn["Frames"]) < Len(frame_meta_data)
  /\ "DiaFrameMsMsInfo" \in DOMAIN conn
  /\ "DiaFrameMsMsWindows" \in DOMAIN conn
  /\ opens = 0

\* C13: when write_frame_meta_data has returned, the Frames table of the store
\* is the list of rows of the session: one row per frame the session wrote, by
\* write_frame or write_frames, in the order of the writes (the i-th row is the
\* one whose payload the i-th append of the session put into the file), and
\* nothing of a Frames table the store held before.
C13_FramesTableIsSessionRows ==
  persisted =>
    /\ "Frames" \in DOMAIN conn
    /\ conn["Frames"] = frame_meta_data
    /\ Len(conn["Frames"]) = Len(appends)
    /\ \A i \in 1..Len(conn["Frames"]) :
         /\ conn["Frames"][i].TimsId = appends[i]
         /\ PayloadAt(i) = compress_frame(FrameOfRow(conn["Frames"][i]), FALSE)

\* the same frame id written by two separate calls and then persisted
C13_Witness ==
  /\ persisted
  /\ ~one_batch
  /\ Len(conn["Frames"]) = 2
  /\ conn["Frames"][1].Id = conn["Frames"][2].Id

C22_TemplateIndexErrorKeepsWriter ==
  /\ [](\A frame \in FrameSet, scan_mode \in ScanModes :
          frame.frame_id > Len(HelperMetaData) =>
            write_frame_result(Writer, frame, scan_mode)
              = [Writer EXCEPT !.raised = TRUE])
  /\ [][raised' = "write_frame" =>
         /\ binary_file' = binary_file
         /\ position' = position
         /\ frame_meta_data' = frame_meta_data
         /\ appends' = appends
         /\ conn' = conn]_vars

\* a write_frame call that raised on a writer that holds one frame
C22_Witness ==
  /\ raised = "write_frame"
  /\ Len(frame_meta_data) = 1
  /\ Len(appends) = 1
  /\ position > offset_bytes

\* the four tables the constructor copies from the template dataset
TemplateTables ==
  [MzCalibration   |-> HelperMzCalibration,
   TimsCalibration |-> HelperTimsCalibration,
   GlobalMetadata  |-> HelperGlobalMetadata,
   FrameMsmsInfo   |-> helper_get_table("FrameMsmsInfo")]

\* C23: from construction on, the store holds MzCalibration, TimsCalibration,
\* GlobalMetadata and FrameMsmsInfo, each equal to the template's table, and
\* no write_frame, write_frames, write_frame_meta_data or DIA write changes
\* any of them.
C23_TemplateTablesStay ==
  \A n \in DOMAIN TemplateTables :
    /\ n \in DOMAIN conn
    /\ conn[n] = TemplateTables[n]

\* a store that got frames, the Frames table and both DIA tables
C23_Witness ==
  /\ persisted
  /\ Len(frame_meta_data) = 2
  /\ "DiaFrameMsMsInfo" \in DOMAIN conn
  /\ "DiaFrameMsMsWindows" \in DOMAIN conn
  /\ Len(conn["DiaFrameMsMsInfo"]) = 2

\* the caller's tables, row by row, under the fixed column names
InfoPersisted(t) ==
  [i \in 1..Len(t) |-> [Frame |-> t[i].frame, WindowGroup |-> t[i].window_group]]

WindowsPersisted(t) ==
  [i \in 1..Len(t) |->
     [WindowGroup |-> t[i].window_group, ScanNumBegin |-> t[i].scan_start,
      ScanNumEnd |-> t[i].scan_end, IsolationMz |-> t[i].isolation_mz,
      IsolationWidth |-> t[i].isolation_width,
      CollisionEnergy |-> t[i].collision_energy]]

\* the store db with table named n replaced by t and nothing else changed
Replaced(db, n, t) ==
  [k \in DOMAIN db \cup {n} |-> IF k = n THEN t ELSE db[k]]

DiaTableChanges ==
  \E n \in {"DiaFrameMsMsInfo", "DiaFrameMsMsWindows"} :
    /\ n \in DOMAIN conn'
    /\ n \notin DOMAIN conn \/ conn'[n] # conn[n]

\* C24: write_dia_ms_ms_info and write_dia_ms_ms_windows store the caller's
\* table, same rows and values, under the columns Frame, WindowGroup and
\* WindowGroup, ScanNumBegin, ScanNumEnd, IsolationMz, IsolationWidth,
\* CollisionEnergy, in place of any earlier table of that name; no other table
\* changes, and neither do the file, position and the rows of the session.
C24_DiaTablesPassThrough ==
  /\ [](\A t \in DiaInfoTables :
          write_dia_ms_ms_info_result(conn, t)
            = Replaced(conn, "DiaFrameMsMsInfo", InfoPersisted(t)))
  /\ [](\A t \in DiaWindowTables :
          write_dia_ms_ms_windows_result(conn, t)
            = Replaced(conn, "DiaFrameMsMsWindows", WindowsPersisted(t)))
  /\ []("DiaFrameMsMsInfo" \in DOMAIN conn =>
          \E t \in DiaInfoTables : conn["DiaFrameMsMsInfo"] = InfoPersisted(t))
  /\ []("DiaFrameMsMsWindows" \in DOMAIN conn =>
          \E t \in DiaWindowTables : conn["DiaFrameMsMsWindows"] = WindowsPersisted(t))
  /\ [][DiaTableChanges =>
         /\ binary_file' = binary_file
         /\ position' = position
         /\ frame_meta_data' = frame_meta_data
         /\ appends' = appends
         /\ \A n \in DOMAIN conn \ {"DiaFrameMsMsInfo", "DiaFrameMsMsWindows"} :
              n \in DOMAIN conn' /\ conn'[n] = conn[n]
         /\ DOMAIN conn' \subseteq
              DOMAIN conn \cup {"DiaFrameMsMsInfo", "DiaFrameMsMsWindows"}]_vars

\* a store with Frames and Segments of one frame that then got a DIA info
\* table of one row and a DIA window table of two
C24_Witness ==
  /\ "Segments" \in DOMAIN conn
  /\ Len(frame_meta_data) = 1
  /\ ~persisted
  /\ "DiaFrameMsMsInfo" \in DOMAIN conn
  /\ "DiaFrameMsMsWindows" \in DOMAIN conn
  /\ Len(conn["DiaFrameMsMsInfo"]) = 1
  /\ Len(conn["DiaFrameMsMsWindows"]) = 2
  /\ conn["DiaFrameMsMsWindows"][2].ScanNumBegin = 4

\* write_frames has ended with the exception of build_frame_meta_row; wf.i is
\* the place in the batch of the frame whose row could not be built and
\* wf.base the number of rows the writer held when write_frames was called
WriteFramesFailed == raised = "write_frames" /\ wf.pc = "idle"

\* C25: when write_frames fails building the row of the k-th frame of its
\* batch, the k-1 frames before it are written: k-1 new rows and k-1 new
\* payloads, in the order of the batch, each row's TimsId the offset where
\* its payload begins, position the length of the file; the failing pass
\* itself adds nothing, so nothing of frames k..n is in the file or the rows.
C25_FailedBatchKeepsEarlierFrames ==
  /\ [](WriteFramesFailed =>
          /\ wf.i \in 1..Len(wf.frames)
          /\ ~build_frame_meta_row_ok(wf.frames[wf.i], FALSE)
          /\ Len(frame_meta_data) = wf.base + wf.i - 1
          /\ Len(appends) = wf.base + wf.i - 1
          /\ position = Len(binary_file)
          /\ \A j \in 1..(wf.i - 1) :
               /\ frame_meta_data[wf.base + j].Id = wf.frames[j].frame_id
               /\ frame_meta_data[wf.base + j].TimsId = appends[wf.base + j]
               /\ PayloadAt(wf.base + j) = compress_frame(wf.frames[j], FALSE))
  /\ [][(raised' = "write_frames" /\ raised # "write_frames") =>
         /\ binary_file' = binary_file
         /\ position' = position
         /\ frame_meta_data' = frame_meta_data
         /\ appends' = appends]_vars

\* the second frame of a batch of two has no template row, the first one is
\* in the file with its peaks
C25_Witness ==
  /\ WriteFramesFailed
  /\ Len(wf.frames) = 2
  /\ wf.i = 2
  /\ Len(frame_meta_data) = wf.base + 1
  /\ PayloadAt(wf.base + 1) # <<>>

\* C26: write_frame_meta_data on a session that wrote no frame raises before
\* it stores anything: the store keeps the tables it had (no Frames and no
\* Segments table is created or replaced), and the file, position and the
\* rows are as before.
C26_EmptySessionPersistsNothing ==
  /\ [](frame_meta_data = <<>> =>
          /\ ~write_frame_meta_data_ok(frame_meta_data)
          /\ write_frame_meta_data_result(conn, frame_meta_data) = conn)
  /\ [][frame_meta_data = <<>> => ~persisted']_vars
  /\ [][raised' = "write_frame_meta_data" =>
         /\ frame_meta_data = <<>>
         /\ conn' = conn
         /\ binary_file' = binary_file
         /\ position' = position
         /\ frame_meta_data' = frame_meta_data
         /\ appends' = appends]_vars

\* the call failed on a writer opened over a directory whose store holds the
\* Frames and Segments of an earlier session
C26_Witness ==
  /\ raised = "write_frame_meta_data"
  /\ opens = 1
  /\ frame_meta_data = <<>>
  /\ "Frames" \in DOMAIN conn
  /\ Len(conn["Frames"]) = 2
  /\ "Segments" \in DOMAIN conn

(***************************************************************************)
(* Properties of the dataset.                                              *)
(***************************************************************************)
\* the list 1, 2, ..., n
UpTo(n) == [i \in 1..n |-> i]

\* C14: a for-loop over a dataset whose cursor is at 1 yields the frames with
\* ids 1, 2, ... in ascending order; when it ends with StopIteration it has
\* yielded exactly frame_count frames and the cursor is at 1 again, so the
\* for-loop that follows a complete one yields the same ids.
C14_FullPassYieldsEveryFrame ==
  /\ loop.start = 1 => loop.yielded = UpTo(Len(loop.yielded))
  /\ (loop.start = 1 /\ loop.state = "stopped") =>
       /\ loop.yielded = UpTo(frame_count(meta_data))
       /\ current_index = 1
  /\ \A k \in 1..Len(loop.prev) :
       /\ loop.start = 1
       /\ (loop.prev[k].start = 1 /\ loop.state = "stopped") =>
            loop.yielded = loop.prev[k].yielded

\* a second complete pass over a dataset of at least two frames
C14_Witness ==
  /\ loop.state = "stopped"
  /\ loop.start = 1
  /\ Len(loop.prev) = 1
  /\ loop.prev[1].start = 1
  /\ Len(loop.yielded) >= 2

\* C15 as stated: the first frame a for-loop yields is the frame with id 1,
\* whatever loops ran before it.
C15_EveryLoopStartsAtFrameOne ==
  /\ loop.state # "none" => loop.start = 1
  /\ Len(loop.yielded) >= 1 => loop.yielded[1] = 1

\* the ids of a list, as a set
Ids(list) == {list[i] : i \in 1..Len(list)}

\* C20: precursor_frames holds the Ids of the rows with MsMsType = 0 and
\* fragment_frames those of the rows with MsMsType > 0; no Id is in both, every
\* Id with MsMsType >= 0 is in one of them, and no loop over the dataset and
\* no read of a frame changes either list.
C20_FramePartition ==
  /\ [](/\ Ids(precursor_frames) =
            {meta_data[i].Id : i \in {j \in 1..Len(meta_data) : meta_data[j].MsMsType = 0}}
        /\ Ids(fragment_frames) =
            {meta_data[i].Id : i \in {j \in 1..Len(meta_data) : meta_data[j].MsMsType > 0}}
        /\ Len(precursor_frames) + Len(fragment_frames) = Len(meta_data)
        /\ Ids(precursor_frames) \cap Ids(fragment_frames) = {}
        /\ \A i \in 1..Len(meta_data) :
             meta_data[i].MsMsType >= 0 =>
               meta_data[i].Id \in Ids(precursor_frames) \cup Ids(fragment_frames))
  /\ [][/\ precursor_frames' = precursor_frames
        /\ fragment_frames' = fragment_frames
        /\ meta_data' = meta_data]_vars

\* a dataset with precursor and fragment frames after a complete loop and a
\* read of a frame
C20_Witness ==
  /\ precursor_frames # <<>>
  /\ fragment_frames # <<>>
  /\ loop.state = "stopped"
  /\ frame_read # <<>>

(***************************************************************************)
(* Properties of the frame constructor and of the opening of a dataset.    *)
(***************************************************************************)
\* C18: the constructor of a frame raises an error and makes no frame when the
\* arrays scan, mobility, tof, mz and intensity it is given are not all of the
\* same length, and every frame object that exists holds five arrays of one
\* length.
C18_UnequalArraysRejected ==
  \A k \in 1..Len(frame_call) :
    LET c == frame_call[k]
        equal == \A a, b \in DOMAIN c.lens : c.lens[a] = c.lens[b]
    IN /\ (c.via = "__init__" /\ ~equal) =>
            c.raised = "AssertionError" /\ c.frames = <<>>
       /\ (c.via = "__init__" /\ equal) => c.raised = "" /\ Len(c.frames) = 1
       /\ \A j \in 1..Len(c.frames) :
            LET f == c.frames[j].frame_ptr
            IN /\ Len(f.scan) = Len(f.mobility)
               /\ Len(f.scan) = Len(f.tof)
               /\ Len(f.scan) = Len(f.mz)
               /\ Len(f.scan) = Len(f.intensity)

\* a constructor call refused because only intensity has another length
C18_Witness ==
  \E k \in 1..Len(frame_call) :
    /\ frame_call[k].via = "__init__"
    /\ frame_call[k].raised = "AssertionError"
    /\ frame_call[k].lens["scan"] = MaxArrayLen
    /\ frame_call[k].lens["mobility"] = MaxArrayLen
    /\ frame_call[k].lens["tof"] = MaxArrayLen
    /\ frame_call[k].lens["mz"] = MaxArrayLen
    /\ frame_call[k].lens["intensity"] < MaxArrayLen

\* C19: the constructor tries the paths in list order and binds the native
\* handle to the first path that loads, trying none after it; it returns an
\* object exactly when some path loads; when none loads it has tried every
\* path, raises, and no object is returned.
C19_FirstLoadablePathIsBound ==
  LET loads == {k \in 1..Len(so_paths) : so_paths[k]}
      ended == opening.pc \in {"returned", "AssertionError"}
  IN /\ opening.tried = UpTo(Len(opening.tried))
     /\ opening.handle # 0 =>
          /\ opening.handle \in loads
          /\ \A k \in loads : opening.handle <= k
          /\ opening.tried = UpTo(opening.handle)
          /\ opening.cls = "TimsDataset" => opening.binary_path = opening.handle
     /\ ended => (opening.pc = "returned" <=> loads # {})
     /\ opening.pc = "returned" => opening.handle # 0
     /\ opening.pc = "AssertionError" =>
          /\ opening.handle = 0
          /\ opening.tried = UpTo(Len(so_paths))

\* a dataset opened on the second of three paths, of which the third loads too
C19_Witness ==
  /\ opening.pc = "returned"
  /\ opening.cls = "TimsDataset"
  /\ opening.handle = 2
  /\ Len(so_paths) = 3
  /\ so_paths[3]

(***************************************************************************)
(* Properties of the noise injector.                                       *)
(***************************************************************************)
\* the frame ids listed in frames_to_window_groups
WindowFrames == {noise_in.frames_to_window_groups[k].frame :
                   k \in 1..Len(noise_in.frames_to_window_groups)}

\* C16: the sampler called for the i-th frame is sample_fragment_signal, with
\* the window group the map holds for the frame's id, exactly when the id is
\* a key of the map, and sample_precursor_signal otherwise; two frames of the
\* list with the same id get the same sampler and group wherever they stand
\* and whatever their ms_type is.
C16_PathByMapMembership ==
  \A k \in 1..Len(noise_out) :
    LET o == noise_out[k]
        d == noise_in.frames_to_window_groups
    IN /\ Len(o.calls) = Len(o.given)
       /\ \A i \in 1..Len(o.given) :
            /\ o.calls[i].sampler \in {"sample_fragment_signal", "sample_precursor_signal"}
            /\ o.calls[i].sampler = "sample_fragment_signal"
                 <=> o.given[i].frame_id \in WindowFrames
            /\ o.given[i].frame_id \in WindowFrames =>
                 \E r \in 1..Len(d) :
                   /\ d[r].frame = o.given[i].frame_id
                   /\ d[r].window_group = o.calls[i].window_group
                   /\ \A q \in (r + 1)..Len(d) : d[q].frame # d[r].frame
       /\ \A i, j \in 1..Len(o.given) :
            o.given[i].frame_id = o.given[j].frame_id =>
              /\ o.calls[i].sampler = o.calls[j].sampler
              /\ o.calls[i].window_group = o.calls[j].window_group

\* a precursor frame that took the fragment path before a fragment frame that
\* took the precursor path
C16_Witness ==
  \E k \in 1..Len(noise_out) :
    /\ Len(noise_out[k].given) = 2
    /\ noise_out[k].given[1].ms_type = 0
    /\ noise_out[k].calls[1].sampler = "sample_fragment_signal"
    /\ noise_out[k].given[2].ms_type > 0
    /\ noise_out[k].calls[2].sampler = "sample_precursor_signal"

\* C17: the list returned is as long as the list given; its i-th frame is the
\* sum of the i-th frame given and the one noise frame sampled for it (every
\* coordinate of either, the intensities added) with the frame_id,
\* retention_time and ms_type of the i-th frame given; the caller's list
\* holds the frames it held.
C17_OutputIsInputPlusNoise ==
  \A k \in 1..Len(noise_out) :
    LET o == noise_out[k]
        at(f, x) == IF x \in DOMAIN f.peaks THEN f.peaks[x] ELSE 0
    IN /\ Len(o.r_list) = Len(o.given)
       /\ Len(o.calls) = Len(o.given)
       /\ noise_in.frames = o.given
       /\ \A i \in 1..Len(o.given) :
            LET in == o.given[i]
                noise == o.calls[i].noise
                out == o.r_list[i]
            IN /\ out.frame_id = in.frame_id
               /\ out.retention_time = in.retention_time
               /\ out.ms_type = in.ms_type
               /\ DOMAIN out.peaks = DOMAIN in.peaks \cup DOMAIN noise.peaks
               /\ \A x \in DOMAIN out.peaks : out.peaks[x] = at(in, x) + at(noise, x)

\* two different frames that got different noise, one on a coordinate the
\* frame has and one on a coordinate it has not
C17_Witness ==
  \E k \in 1..Len(noise_out) :
    /\ Len(noise_out[k].given) = 2
    /\ noise_out[k].given[1].frame_id > noise_out[k].given[2].frame_id
    /\ noise_out[k].calls[1].noise.peaks # noise_out[k].calls[2].noise.peaks
    /\ noise_out[k].given[1].peaks # <<>>
    /\ DOMAIN noise_out[k].r_list[1].peaks # DOMAIN noise_out[k].given[1].peaks
    /\ DOMAIN noise_out[k].r_list[2].peaks = DOMAIN noise_out[k].given[2].peaks

(***************************************************************************)
(* Properties of the slice.                                                *)
(***************************************************************************)
\* C27: a for-loop over a slice that from_py_tims_slice made, or whose index is
\* at 0, yields the frames at indices 0, 1, ... in order; when it ends with
\* StopIteration it has yielded frame_count frames and the index is 0 again,
\* so the loop after a complete one yields the same frames; the index is in
\* 0..frame_count in every state.
C27_SlicePassYieldsEveryFrame ==
  /\ slice_index \in 0..slice_frame_count(slice_ptr)
  /\ slice_loop.begun = 1 => slice_loop.start = 0
  /\ slice_loop.start = 0 =>
       slice_loop.yielded = SubSeq(slice_ptr, 1, Len(slice_loop.yielded))
  /\ (slice_loop.start = 0 /\ slice_loop.state = "stopped") =>
       /\ slice_loop.yielded = slice_ptr
       /\ slice_index = 0
  /\ \A k \in 1..Len(slice_loop.prev) :
       /\ slice_loop.start = 0
       /\ (slice_loop.prev[k].start = 0 /\ slice_loop.state = "stopped") =>
            slice_loop.yielded = slice_loop.prev[k].yielded

\* a second complete pass over a slice of three frames that begins at frame 4
C27_Witness ==
  /\ slice_loop.state = "stopped"
  /\ slice_loop.start = 0
  /\ Len(slice_loop.prev) = 1
  /\ slice_loop.prev[1].start = 0
  /\ Len(slice_loop.yielded) = 3
  /\ slice_loop.yielded[1].frame_id = 4

(***************************************************************************)
(* Properties of split_fasta.                                              *)
(***************************************************************************)
\* the number of sequences of a fasta string: its header lines
NumSequences(s) == Len(re_split(s))

\* the entries of a fasta string, each without the '>' of its header line
Entries(s) ==
  LET pieces == re_split(s)
  IN IF startswith_gt(pieces[1]) THEN [pieces EXCEPT ![1] = Tail(@)] ELSE pieces

====
